---------------------------- MODULE Spec2Model ----------------------------
(***************************************************************************)
(* Model of the notebook vizualize_sap_hana_data.ipynb: a table selector,  *)
(* a lazily refreshed full-table cache (CurrentTable), three column        *)
(* selectors fed from the preview, and three outputs (statistics, pie      *)
(* chart, box plot), driven by UI events handled one at a time.            *)
(*                                                                         *)
(* A dataframe is a record [cols, rows]: the column names in order and the *)
(* rows, each row a sequence of values aligned with cols.  An Output       *)
(* widget is the sequence of the items displayed in it.                    *)
(***************************************************************************)
EXTENDS Naturals, Sequences, FiniteSets

(***************************************************************************)
(* The database: the catalog of schema SFLIGHT and the contents of its     *)
(* tables.  Queries are read-only, so the contents are fixed.              *)
(***************************************************************************)

\* How many tables of the catalog the dropdown offers in the model.
NumTables == 2

\* The SQL NULL / pandas NaN value of a cell.
Null == "NULL"

\* Result of "SELECT TABLE_NAME FROM SYS.M_TABLES where schema_name='SFLIGHT'".
AllTables == <<"SFLIGHT", "SCUSTOM", "SBOOK", "SCARR">>

tables_df == SubSeq(AllTables, 1, NumTables)

Tables == {tables_df[i] : i \in 1..Len(tables_df)}

\* Contents of sflight.<t>.
Database(t) ==
    CASE t = "SFLIGHT" ->
           [cols |-> <<"carrid", "price">>,
            rows |-> << <<"AA", "422">>, <<"AA", "422">>, <<"LH", Null>>,
                        <<"LH", "666">>, <<Null, "185">> >>]
      [] t = "SCUSTOM" ->
           [cols |-> <<"id", "country">>,
            rows |-> << <<"1", "DE">>, <<"2", "US">>, <<"3", "DE">>,
                        <<"4", Null>>, <<"5", "DE">>, <<"6", "US">> >>]
      [] t = "SBOOK" ->
           [cols |-> <<"carrid", "agencynum">>,
            rows |-> << <<"LH", "109">>, <<"AA", "109">>, <<"LH", Null>> >>]
      [] OTHER ->
           [cols |-> <<"carrid", "carrname">>,
            rows |-> << <<"AA", "American">>, <<"LH", "Lufthansa">> >>]

(***************************************************************************)
(* Dataframe helpers.                                                      *)
(***************************************************************************)

Min(a, b) == IF a <= b THEN a ELSE b

\* Optional values: None is the empty sequence, Some(x) a one-element one.
None == <<>>

Some(x) == <<x>>

ColumnSet(df) == {df.cols[i] : i \in 1..Len(df.cols)}

\* Position of column c in df (c is one of its columns).
ColumnIndex(df, c) == CHOOSE i \in 1..Len(df.cols) : df.cols[i] = c

\* df[c]: the values of column c, one per row.
Column(df, c) == [i \in 1..Len(df.rows) |-> df.rows[i][ColumnIndex(df, c)]]

\* get_selected_table: "select * from sflight.<table>".
get_selected_table(t) == Database(t)

\* The default of parameter top of get_selected_table_top.
top == 10

\* pandas' DataFrame.head() keeps the first 5 rows.
HeadRows == 5

\* get_selected_table_top: "select top 10 * from sflight.<table>".
get_selected_table_top(t) ==
    [cols |-> Database(t).cols,
     rows |-> SubSeq(Database(t).rows, 1, Min(top, Len(Database(t).rows)))]

\* df.head()
head(df) ==
    [cols |-> df.cols, rows |-> SubSeq(df.rows, 1, Min(HeadRows, Len(df.rows)))]

\* Series.value_counts() with dropna=False: NaN is counted as a value.
value_counts_keep_null(s) ==
    [v \in {s[i] : i \in 1..Len(s)} |->
        Cardinality({i \in 1..Len(s) : s[i] = v})]

\* Series.value_counts(): the frequency of each distinct non-null value.
value_counts(s) ==
    [v \in {s[i] : i \in 1..Len(s)} \ {Null} |->
        Cardinality({i \in 1..Len(s) : s[i] = v})]

\* df.describe(include="all"), reduced to its count and unique rows.
describe(df) ==
    [cols   |-> df.cols,
     count  |-> [i \in 1..Len(df.cols) |->
                   Cardinality({r \in 1..Len(df.rows) : df.rows[r][i] # Null})],
     unique |-> [i \in 1..Len(df.cols) |->
                   Cardinality({df.rows[r][i] : r \in 1..Len(df.rows)} \ {Null})]]

(***************************************************************************)
(* Items displayed in an Output widget.                                    *)
(***************************************************************************)

TextItem(s) == [kind |-> "text", data |-> <<s>>]

\* What Output.__exit__ shows when the body of "with output:" raises.
TracebackItem(e) == [kind |-> "traceback", data |-> <<e>>]

FrameItem(df) == [kind |-> "frame", data |-> <<df>>]

StatsItem(df) == [kind |-> "stats", data |-> <<describe(df)>>]

\* px.pie(names=value_counts.index, values=value_counts.to_numpy(), title=...)
PieItem(df, c) ==
    [kind |-> "pie", data |-> <<[counts |-> value_counts(Column(df, c)), title |-> c]>>]

\* px.box(current_table.df, x=..., y=...)
BoxItem(df, x, y) == [kind |-> "box", data |-> <<[df |-> df, x |-> x, y |-> y]>>]

Kinds(out) == {out[i].kind : i \in 1..Len(out)}

(***************************************************************************)
(* State.                                                                  *)
(***************************************************************************)
VARIABLES
    pc,                 \* position in the notebook: "catalog", "build", "ready",
                        \* "reported", "catalog_error" or "build_error"
    stdout,             \* messages printed by the catalog cell
    error,              \* the exception that stopped the notebook, "" if none
    table_selector,     \* table_selector.value
    df,                 \* current_table.df: None or Some(dataframe)
    table_name,         \* current_table.table_name
    df_head,            \* df_head_output.df_head
    df_head_output,     \* the four Output widgets
    df_stats_output,
    pie_output,
    boxplot_output,
    column_selector,    \* the Dropdown of each ColumnSelector: [options, value]
    column_selector_x,
    column_selector_y,
    event,              \* the UI event handled last: [op, done]
    fetch               \* what update_df() did when last called since the last
                        \* selection change: "n/a", "hit", "ok" or "failed"

vars == <<pc, stdout, error, table_selector, df, table_name, df_head,
          df_head_output, df_stats_output, pie_output, boxplot_output,
          column_selector, column_selector_x, column_selector_y, event, fetch>>


(***************************************************************************)
(* Startup: the cells of the notebook, run in order.                       *)
(***************************************************************************)

\* The names bound when the catalog cell runs (imports and assignments of
\* the cells before it).
ImportedNames ==
    {"partial", "sqlalchemy_hana", "create_engine", "text", "pd", "widgets",
     "px", "configparser", "dbapi", "config", "pw", "user", "host",
     "display", "HTML", "engine"}

\* "except DBAPIError as e": the clause matches only if the name is bound;
\* evaluating an unbound name raises NameError in place of the handler.
ExceptClauseResolves == "DBAPIError" \in ImportedNames

EngineMessage == "Engine connection did not succeed."

\* widgets.Dropdown(options=columns, value=columns[0])
Dropdown(columns) == [options |-> columns, value |-> columns[1]]

NoFrame == [cols |-> <<>>, rows |-> <<>>]

Init ==
    /\ pc = "catalog"
    /\ stdout = <<>>
    /\ error = ""
    /\ table_selector = ""
    /\ df = None
    /\ table_name = ""
    /\ df_head = NoFrame
    /\ df_head_output = <<>>
    /\ df_stats_output = <<>>
    /\ pie_output = <<>>
    /\ boxplot_output = <<>>
    /\ column_selector = [options |-> <<>>, value |-> ""]
    /\ column_selector_x = [options |-> <<>>, value |-> ""]
    /\ column_selector_y = [options |-> <<>>, value |-> ""]
    /\ event = [op |-> "none", done |-> TRUE]
    /\ fetch = "n/a"

ui_vars == <<table_selector, df, table_name, df_head, df_head_output,
             df_stats_output, pie_output, boxplot_output, column_selector,
             column_selector_x, column_selector_y, event, fetch>>

\* The cell "try: ... pd.read_sql(catalog query) except DBAPIError: print(...)".
\* dbUp: whether the database answers.
CatalogQuery(dbUp) ==
    /\ pc = "catalog"
    /\ IF dbUp
         THEN /\ pc' = "build"
              /\ UNCHANGED <<stdout, error>>
         ELSE IF ExceptClauseResolves
                THEN /\ stdout' = Append(stdout, EngineMessage)
                     /\ pc' = "reported"
                     /\ UNCHANGED error
                ELSE /\ error' = "NameError: name 'DBAPIError' is not defined"
                     /\ pc' = "catalog_error"
                     /\ UNCHANGED stdout
    /\ UNCHANGED ui_vars

\* The cells from the table selector down to the box-plot output: they build
\* the widgets, run the first preview and register the observers.
BuildUI(previewOk) ==
    /\ pc = "build"
    /\ table_selector' = tables_df[1]
    /\ df' = None
    /\ table_name' = tables_df[1]
    /\ UNCHANGED <<stdout, df_stats_output, pie_output, boxplot_output, fetch>>
    /\ IF previewOk
         THEN /\ df_head' = head(get_selected_table_top(tables_df[1]))
              /\ df_head_output' = <<FrameItem(df_head')>>
              /\ column_selector' = Dropdown(df_head'.cols)
              /\ column_selector_x' = Dropdown(df_head'.cols)
              /\ column_selector_y' = Dropdown(df_head'.cols)
              /\ event' = [op |-> "startup", done |-> TRUE]
              /\ pc' = "ready"
              /\ UNCHANGED error
         ELSE /\ error' = "DBAPIError"
              /\ pc' = "build_error"
              /\ UNCHANGED <<df_head, df_head_output, column_selector,
                             column_selector_x, column_selector_y, event>>

(***************************************************************************)
(* Table-selection change: the observers of table_selector.value, called   *)
(* in registration order; an exception in one ends the notification.       *)
(***************************************************************************)

\* show_selected_table_head(table_selector, engine, df_head_output)
show_selected_table_head(u, t, previewOk) ==
    IF previewOk
      THEN [u EXCEPT !.df_head = head(get_selected_table_top(t)),
                     !.df_head_output = <<FrameItem(head(get_selected_table_top(t)))>>]
      ELSE [u EXCEPT !.df_head_output = <<>>, !.raised = TRUE]

\* ColumnSelector.display_in_output: update_column_selector, then redisplay.
display_in_output(u) == Dropdown(u.df_head.cols)

\* The callbacks registered with table_selector.observe, in order.
Observers ==
    <<"show_selected_table_head", "clear_df_stats_output", "column_selector",
      "clear_pie_output", "column_selector_x", "column_selector_y",
      "clear_pie_output">>

CallObserver(name, u, t, previewOk) ==
    CASE name = "show_selected_table_head" -> show_selected_table_head(u, t, previewOk)
      [] name = "clear_df_stats_output" -> [u EXCEPT !.df_stats_output = <<>>]
      [] name = "clear_pie_output" -> [u EXCEPT !.pie_output = <<>>]
      [] name = "column_selector" -> [u EXCEPT !.column_selector = display_in_output(u)]
      [] name = "column_selector_x" -> [u EXCEPT !.column_selector_x = display_in_output(u)]
      [] name = "column_selector_y" -> [u EXCEPT !.column_selector_y = display_in_output(u)]

RECURSIVE notify_change(_, _, _, _)
notify_change(i, u, t, previewOk) ==
    IF i > Len(Observers) \/ u.raised
      THEN u
      ELSE notify_change(i + 1, CallObserver(Observers[i], u, t, previewOk), t, previewOk)

\* The user picks table t in the dropdown.
SelectTable(t, previewOk) ==
    /\ pc = "ready"
    /\ t \in Tables
    /\ t # table_selector
    /\ table_selector' = t
    /\ LET u == notify_change(1,
                  [df_head |-> df_head, df_head_output |-> df_head_output,
                   df_stats_output |-> df_stats_output, pie_output |-> pie_output,
                   boxplot_output |-> boxplot_output,
                   column_selector |-> column_selector,
                   column_selector_x |-> column_selector_x,
                   column_selector_y |-> column_selector_y, raised |-> FALSE],
                  t, previewOk)
       IN  /\ df_head' = u.df_head
           /\ df_head_output' = u.df_head_output
           /\ df_stats_output' = u.df_stats_output
           /\ pie_output' = u.pie_output
           /\ boxplot_output' = u.boxplot_output
           /\ column_selector' = u.column_selector
           /\ column_selector_x' = u.column_selector_x
           /\ column_selector_y' = u.column_selector_y
           /\ event' = [op |-> "select", done |-> ~u.raised]
    /\ fetch' = "n/a"
    /\ UNCHANGED <<pc, stdout, error, df, table_name>>

(***************************************************************************)
(* The cache and the three requests.                                       *)
(***************************************************************************)

\* The condition of update_df with the comparison of the names left out.
needs_fetch_df_only(name, selected, frame) == frame = None

\* The condition of update_df made always true.
needs_fetch_always(name, selected, frame) == TRUE

\* The condition of update_df: the selection moved or nothing is cached.
needs_fetch(name, selected, frame) == (name # selected) \/ (frame = None)

\* update_df that keeps the old table_name after a fetch.
update_df_keeps_name(frame, name, selected, fetchOk) ==
    IF needs_fetch(name, selected, frame)
      THEN IF fetchOk
             THEN [df |-> Some(get_selected_table(selected)), table_name |-> name,
                   fetch |-> "ok"]
             ELSE [df |-> frame, table_name |-> name, fetch |-> "failed"]
      ELSE [df |-> frame, table_name |-> name, fetch |-> "hit"]

\* update_df that drops the cached table before it fetches.
update_df_clears_first(frame, name, selected, fetchOk) ==
    IF needs_fetch(name, selected, frame)
      THEN IF fetchOk
             THEN [df |-> Some(get_selected_table(selected)), table_name |-> selected,
                   fetch |-> "ok"]
             ELSE [df |-> None, table_name |-> selected, fetch |-> "failed"]
      ELSE [df |-> frame, table_name |-> name, fetch |-> "hit"]

\* CurrentTable.update_df: the new (df, table_name) and what the call did:
\* "hit" (no query), "ok" (query answered) or "failed" (query raised, and the
\* assignments of the two fields did not happen).
update_df(frame, name, selected, fetchOk) ==
    IF needs_fetch(name, selected, frame)
      THEN IF fetchOk
             THEN [df |-> Some(get_selected_table(selected)), table_name |-> selected,
                   fetch |-> "ok"]
             ELSE [df |-> frame, table_name |-> name, fetch |-> "failed"]
      ELSE [df |-> frame, table_name |-> name, fetch |-> "hit"]

\* Click on "Retrieve all data and view statistics".
show_stats_for_selected_table(fetchOk) ==
    /\ pc = "ready"
    /\ LET r == update_df(df, table_name, table_selector, fetchOk)
       IN  /\ df' = r.df
           /\ table_name' = r.table_name
           /\ fetch' = r.fetch
           /\ df_stats_output' =
                IF r.fetch = "failed"
                  THEN <<TextItem("Retrieving data"), TracebackItem("DBAPIError")>>
                  ELSE <<StatsItem(r.df[1])>>
           /\ event' = [op |-> "stats", done |-> r.fetch # "failed"]
    /\ UNCHANGED <<pc, stdout, error, table_selector, df_head, df_head_output,
                   pie_output, boxplot_output, column_selector,
                   column_selector_x, column_selector_y>>

\* Click on "Generate pie chart".
show_pie_chart(fetchOk) ==
    /\ pc = "ready"
    /\ LET r == update_df(df, table_name, table_selector, fetchOk)
           c == column_selector.value
           drawn == r.fetch # "failed" /\ c \in ColumnSet(r.df[1])
       IN  /\ df' = r.df
           /\ table_name' = r.table_name
           /\ fetch' = r.fetch
           /\ pie_output' =
                IF r.fetch = "failed" THEN <<TracebackItem("DBAPIError")>>
                ELSE IF ~drawn THEN <<TracebackItem("KeyError")>>
                ELSE <<PieItem(r.df[1], c)>>
           /\ event' = [op |-> "pie", done |-> drawn]
    /\ UNCHANGED <<pc, stdout, error, table_selector, df_head, df_head_output,
                   df_stats_output, boxplot_output, column_selector,
                   column_selector_x, column_selector_y>>

\* Click on "Generate boxplot".
show_boxplot(fetchOk) ==
    /\ pc = "ready"
    /\ LET r == update_df(df, table_name, table_selector, fetchOk)
           x == column_selector_x.value
           y == column_selector_y.value
           drawn == r.fetch # "failed" /\ {x, y} \subseteq ColumnSet(r.df[1])
       IN  /\ df' = r.df
           /\ table_name' = r.table_name
           /\ fetch' = r.fetch
           /\ boxplot_output' =
                IF r.fetch = "failed" THEN <<TracebackItem("DBAPIError")>>
                ELSE IF ~drawn THEN <<TracebackItem("ValueError")>>
                ELSE <<BoxItem(r.df[1], x, y)>>
           /\ event' = [op |-> "box", done |-> drawn]
    /\ UNCHANGED <<pc, stdout, error, table_selector, df_head, df_head_output,
                   df_stats_output, pie_output, column_selector,
                   column_selector_x, column_selector_y>>

(***************************************************************************)
(* The user picks a column in one of the three column dropdowns.           *)
(***************************************************************************)

Options(d) == {d.options[i] : i \in 1..Len(d.options)}

ChoosePieColumn(c) ==
    /\ pc = "ready"
    /\ c \in Options(column_selector) \ {column_selector.value}
    /\ column_selector' = [column_selector EXCEPT !.value = c]
    /\ event' = [op |-> "choose", done |-> TRUE]
    /\ UNCHANGED <<pc, stdout, error, table_selector, df, table_name, df_head,
                   df_head_output, df_stats_output, pie_output, boxplot_output,
                   column_selector_x, column_selector_y, fetch>>

ChooseCategory(c) ==
    /\ pc = "ready"
    /\ c \in Options(column_selector_x) \ {column_selector_x.value}
    /\ column_selector_x' = [column_selector_x EXCEPT !.value = c]
    /\ event' = [op |-> "choose", done |-> TRUE]
    /\ UNCHANGED <<pc, stdout, error, table_selector, df, table_name, df_head,
                   df_head_output, df_stats_output, pie_output, boxplot_output,
                   column_selector, column_selector_y, fetch>>

ChooseValue(c) ==
    /\ pc = "ready"
    /\ c \in Options(column_selector_y) \ {column_selector_y.value}
    /\ column_selector_y' = [column_selector_y EXCEPT !.value = c]
    /\ event' = [op |-> "choose", done |-> TRUE]
    /\ UNCHANGED <<pc, stdout, error, table_selector, df, table_name, df_head,
                   df_head_output, df_stats_output, pie_output, boxplot_output,
                   column_selector, column_selector_x, fetch>>

AllColumns == UNION {ColumnSet(Database(t)) : t \in Tables}

Next ==
    \/ \E dbUp \in BOOLEAN : CatalogQuery(dbUp)
    \/ \E previewOk \in BOOLEAN : BuildUI(previewOk)
    \/ \E t \in Tables, previewOk \in BOOLEAN : SelectTable(t, previewOk)
    \/ \E fetchOk \in BOOLEAN : show_stats_for_selected_table(fetchOk)
    \/ \E fetchOk \in BOOLEAN : show_pie_chart(fetchOk)
    \/ \E fetchOk \in BOOLEAN : show_boxplot(fetchOk)
    \/ \E c \in AllColumns : ChoosePieColumn(c)
    \/ \E c \in AllColumns : ChooseCategory(c)
    \/ \E c \in AllColumns : ChooseValue(c)

Spec == Init /\ [][Next]_vars


(***************************************************************************)
(* Properties.                                                             *)
(***************************************************************************)

Requests == {"stats", "pie", "box"}

Ready == pc = "ready"

\* The step just taken was a click on one of the three buttons.
RequestStep == event'.op \in Requests

\* The preview the code shows for table t.
PreviewOf(t) == head(get_selected_table_top(t))

\* C1: every request that completes reads, after update_df(), the full
\* contents of the table selected at the moment of the request, and what it
\* renders is computed from that table, never from a table selected earlier.
C1_RequestsUseSelectedTable ==
    (Ready /\ event.op \in Requests /\ event.done) =>
        /\ df = Some(Database(table_selector))
        /\ event.op = "stats" =>
             df_stats_output = <<StatsItem(Database(table_selector))>>
        /\ event.op = "pie" =>
             pie_output = <<PieItem(Database(table_selector), column_selector.value)>>
        /\ event.op = "box" =>
             boxplot_output = <<BoxItem(Database(table_selector),
                                        column_selector_x.value,
                                        column_selector_y.value)>>

\* A pie chart of the second table is drawn while the box plot drawn from
\* the first table, cached before the selection changed, is still there.
C1_Witness ==
    /\ Ready /\ event.op = "pie" /\ event.done
    /\ table_selector = tables_df[2]
    /\ Kinds(boxplot_output) = {"box"}
    /\ boxplot_output[1].data[1].df = Database(tables_df[1])

\* C2, as stated: between two events, a cached table is always tagged with
\* the table the selector shows.
C2_TagFollowsSelection ==
    (Ready /\ df # None) => table_name = table_selector

\* C2, amended: between two events, a cached table is tagged with the table
\* the selector shows once update_df() has returned normally since the last
\* selection change.
C2_TagAfterUpdate ==
    (Ready /\ df # None /\ fetch \in {"ok", "hit"}) => table_name = table_selector

C2_Witness ==
    /\ Ready /\ fetch = "ok" /\ df # None
    /\ table_selector = tables_df[2] /\ table_name = tables_df[2]

\* C3, as stated: the first request after any selection change performs a
\* full-table fetch.
C3_FirstRequestFetches ==
    [][(Ready /\ event.op = "select" /\ RequestStep) => fetch' \in {"ok", "failed"}]_vars

\* C3, amended: the first request after a selection change (or after
\* startup) performs a full-table fetch exactly when the cache does not hold
\* the contents of the table now selected; a change that returns to the
\* cached table before any request is served from the cache.
C3_FetchIffCacheMoved ==
    [][(Ready /\ fetch = "n/a" /\ RequestStep) =>
          (fetch' = "hit" <=> df = Some(Database(table_selector)))]_vars

\* Right after a selection change that returned to the cached table.
C3_Witness ==
    /\ Ready /\ event.op = "select" /\ fetch = "n/a"
    /\ df = Some(Database(table_selector))

\* C4: a request that follows a successful update_df() with no selection
\* change in between performs no fetch and leaves df and table_name alone.
C4_SecondCallHits ==
    [][(Ready /\ fetch \in {"ok", "hit"} /\ RequestStep) =>
          (fetch' = "hit" /\ df' = df /\ table_name' = table_name)]_vars

\* The pie button hit the cache that the statistics button had filled.
C4_Witness ==
    /\ Ready /\ event.op = "pie" /\ fetch = "hit"
    /\ table_selector = tables_df[2]
    /\ df_stats_output = <<StatsItem(Database(table_selector))>>
    /\ Kinds(pie_output) = {"pie"}

\* Outputs that show statistics or a chart.
Rendered(out) == Kinds(out) \cap {"stats", "pie", "box"} # {}

\* C5: after a selection change has been handled by all its observers, no
\* chart remains displayed, neither in the pie output nor in the box-plot
\* output.
C5_ChartsCleared ==
    (Ready /\ event.op = "select" /\ event.done) =>
        (~Rendered(pie_output) /\ ~Rendered(boxplot_output))

\* C6: between two events, the options of the three column selectors are
\* the column names of the stored preview, and that preview is the preview
\* of the table now selected.
C6_OptionsMatchPreview ==
    Ready =>
        /\ column_selector.options = df_head.cols
        /\ column_selector_x.options = df_head.cols
        /\ column_selector_y.options = df_head.cols
        /\ df_head = PreviewOf(table_selector)

\* C7: a selection change sets the choice of each of the three column
\* selectors to the first column of the new table's preview, and between
\* events each choice is a column of the stored preview.
C7_SelectorsReset ==
    [][(Ready /\ table_selector' # table_selector) =>
          /\ column_selector'.value = PreviewOf(table_selector').cols[1]
          /\ column_selector_x'.value = PreviewOf(table_selector').cols[1]
          /\ column_selector_y'.value = PreviewOf(table_selector').cols[1]
          /\ {column_selector'.value, column_selector_x'.value,
              column_selector_y'.value} \subseteq ColumnSet(df_head')]_vars

\* C8: when the catalog query finds the database unreachable, the cell ends
\* with the message printed once and no other error.
C8_MessageReportedOnce ==
    pc \in {"reported", "catalog_error"} =>
        (pc = "reported" /\ stdout = <<EngineMessage>> /\ error = "")

\* C9: a request whose full-table fetch fails leaves df and table_name as
\* they were and renders no statistics or chart (its output holds only the
\* traceback, after the progress message for the statistics); the next
\* request for the table still selected queries again, and if it completes
\* it shows the selected table, not an older one.
C9_FailedFetchLeavesCache ==
    [][/\ (Ready /\ RequestStep /\ fetch' = "failed") =>
            /\ df' = df
            /\ table_name' = table_name
            /\ event'.op = "stats" => ~Rendered(df_stats_output')
            /\ event'.op = "pie" => ~Rendered(pie_output')
            /\ event'.op = "box" => ~Rendered(boxplot_output')
            /\ ~event'.done
       /\ (Ready /\ fetch = "failed" /\ RequestStep) =>
            /\ fetch' \in {"ok", "failed"}
            /\ event'.done => df' = Some(Database(table_selector))]_vars

\* The fetch for the newly selected table failed while the table fetched
\* before is still in the cache.
C9_Witness ==
    /\ Ready /\ event.op \in Requests /\ fetch = "failed"
    /\ df # None /\ table_name # table_selector

RECURSIVE SumOver(_, _)
SumOver(f, S) ==
    IF S = {} THEN 0
    ELSE LET v == CHOOSE w \in S : TRUE IN f[v] + SumOver(f, S \ {v})

NullRows(frame, c) == {i \in 1..Len(frame.rows) : Column(frame, c)[i] = Null}

\* C10: the pie chart drawn for the cached table and the selected column has
\* one slice per distinct non-null value, and its values sum to the number
\* of rows minus the number of rows that are null in that column.
C10_PieSlicesSum ==
    (Ready /\ event.op = "pie" /\ event.done) =>
        LET counts == pie_output[1].data[1].counts
            c == column_selector.value
        IN  /\ DOMAIN counts =
                 {Column(df[1], c)[i] : i \in 1..Len(df[1].rows)} \ {Null}
            /\ SumOver(counts, DOMAIN counts) =
                 Len(df[1].rows) - Cardinality(NullRows(df[1], c))

\* A pie chart of a column that holds nulls and a repeated value.
C10_Witness ==
    /\ Ready /\ event.op = "pie" /\ event.done
    /\ NullRows(df[1], column_selector.value) # {}
    /\ \E v \in DOMAIN pie_output[1].data[1].counts :
          pie_output[1].data[1].counts[v] > 1

\* C11: the statistics output never shows statistics of a table other than
\* the one now selected: whatever statistics it displays are the describe()
\* summary of the selected table, and nothing else is displayed with them.
C11_StatsOfSelectedTable ==
    (Ready /\ "stats" \in Kinds(df_stats_output)) =>
        df_stats_output = <<StatsItem(Database(table_selector))>>

\* C12: whenever a table is cached, its contents are the rows of the table
\* that table_name names.
C12_DataMatchesTag ==
    (Ready /\ df # None) => df = Some(Database(table_name))

\* The cache was refilled for the first table after it had held the second
\* one, whose box plot is still displayed.
C12_Witness ==
    /\ Ready /\ fetch = "ok" /\ event.op \in Requests
    /\ table_name = tables_df[1]
    /\ df = Some(Database(tables_df[1]))
    /\ Kinds(boxplot_output) = {"box"}
    /\ boxplot_output[1].data[1].df = Database(tables_df[2])

\* C13: whenever show_pie_chart or show_boxplot, after update_df() returned,
\* indexes the cached table by the current value of a column selector, that
\* value is a column of the cached table.
C13_IndexedColumnExists ==
    (Ready /\ event.op \in {"pie", "box"} /\ fetch \in {"ok", "hit"}) =>
        /\ event.op = "pie" => column_selector.value \in ColumnSet(df[1])
        /\ event.op = "box" =>
             {column_selector_x.value, column_selector_y.value}
                 \subseteq ColumnSet(df[1])

=============================================================================
